---- MODULE Spec2Model ----
(***************************************************************************)
(* Session and connectivity layer of study-buddy-hub: the API client       *)
(* (src/src/lib/api.ts) and the AuthProvider that wraps it                 *)
(* (src/frontend/src/contexts/AuthContext.tsx).                            *)
(*                                                                         *)
(* JavaScript runs each continuation to completion, so one action is one   *)
(* run of code between two network suspensions: issuing the fetch, the     *)
(* response headers arriving (or the fetch rejecting), and the body read   *)
(* by response.json() finishing.  Calls in flight interleave at exactly    *)
(* these points.                                                           *)
(***************************************************************************)
EXTENDS Integers, Sequences, FiniteSets, Bags, TLC

VARIABLES localStorage, user, loading, onUnauthorizedCallback,
          connectionStatus, tasks, last, loginCompleted

\* The workspace page (Index.tsx) and its children ConnectionStatus,
\* DocumentUpload, DocumentList and ChatInterface.
VARIABLES mounted, interval, isConnected, documents, isLoadingDocs,
          chatLoading, deletingDoc, dropDisabled, uploadAttempt, chatStep

\* The login form (LoginForm).
VARIABLES formUsername, formLoading, submitted

\* The document whose removal is followed, and the path of its request.
VARIABLES removal

\* The auth-derived ConnectionStatus (unnamed/part_000): its prevAuth state,
\* Null while that component is not mounted.
VARIABLES prevAuth

gatewayVars == <<localStorage, user, loading, onUnauthorizedCallback,
                 connectionStatus, tasks, loginCompleted>>

appVars == <<mounted, interval, isConnected, documents, isLoadingDocs,
             chatLoading, deletingDoc, dropDisabled, uploadAttempt, chatStep>>

formVars == <<formUsername, formLoading, submitted>>

uiVars == <<appVars, formVars, removal, prevAuth>>

vars == <<localStorage, user, loading, onUnauthorizedCallback,
          connectionStatus, tasks, last, loginCompleted, appVars, formVars, removal, prevAuth>>

\* ------------------------------------------------------------------ bounds
\* Number of gateway calls that may be in flight at the same time.
MaxInFlight == 2

\* Longest username typed into the login form.
MaxUsernameLen == 4

\* Longest file name handed to removePdf.
MaxNameLen == 3

\* ------------------------------------------------------------ environment
\* What localStorage.getItem returns for a missing key.
Null == "null"

\* The (access_token, username) pairs the backend may answer a login or a
\* registration with.
Credentials == { [access_token |-> "t1", username |-> "alice"],
                 [access_token |-> "t2", username |-> "bob"] }

\* HTTP statuses the backend answers with: success, rejected credential,
\* any other failure.
Statuses == {200, 401, 500}

\* Response.ok
ResponseOk(status) == status >= 200 /\ status <= 299

\* Error messages are sequences of fragments, so that String.includes and
\* template concatenation are computed rather than assumed.
Includes(msg, fragment) == \E i \in 1..Len(msg) : msg[i] = fragment

\* The message of the TypeError a rejected fetch carries: Chromium, Firefox
\* and WebKit word it differently.
FetchErrors == { <<"Failed to fetch">>,
                 <<"NetworkError", "when attempting to fetch resource.">>,
                 <<"Load failed">> }

\* The rejection of a fetch aborted by AbortSignal.timeout.
TimeoutError == <<"The operation timed out.">>

\* The message of the SyntaxError response.json() throws on a bad body.
SyntaxError == <<"Unexpected token">>

\* The detail field of a structured error payload.
BackendDetail == <<"backend detail">>

\* Outcomes of reading an error body: a payload with a detail, a payload
\* without one, a body that is not JSON.
ErrorBodies == {"detail", "nodetail", "unparseable"}

\* --------------------------------------------------------------- the state
NoUser == [username |-> Null, authToken |-> Null]

EmptyStorage == [authToken |-> Null, username |-> Null]

Ops == {"register", "login", "logout", "checkConnection",
        "uploadPdf", "listPdfs", "removePdf", "chat"}

\* What a call hands to its caller: a returned value (with the decoded
\* LoginResponse for register and login) or a thrown Error and its message.
NoData == [access_token |-> Null, username |-> Null]

Return(v) == [kind |-> "return", val |-> v, msg |-> <<>>, data |-> NoData]
ReturnData(d) == [kind |-> "return", val |-> "LoginResponse", msg |-> <<>>, data |-> d]
Throw(m) == [kind |-> "throw", val |-> "none", msg |-> m, data |-> NoData]

\* The step just taken, when it completed a call: the operation, the
\* response it had (0 when the request never got one), whether a request
\* was issued at all, what the caller received, how often the eviction
\* callback ran, and whether a user was set when the step began.  Every
\* step that completes no call records NoEvent.
NoEvent == [op |-> "none", status |-> 0, sent |-> FALSE, result |-> Return("none"),
            fired |-> 0, wasAuthenticated |-> FALSE]

Event(op, status, sent, result, fired) ==
    [op |-> op, status |-> status, sent |-> sent, result |-> result, fired |-> fired,
     wasAuthenticated |-> (user # NoUser)]

\* let connectionStatus = { connected: false, lastChecked: new Date() }
Connected == [connected |-> TRUE, error |-> "none"]
Disconnected(error) == [connected |-> FALSE, error |-> error]

\* The calls in flight form a bag: two calls of the same operation in the
\* same phase are two members.
InFlight == BagToSet(tasks)

HasRoom == BagCardinality(tasks) < MaxInFlight

Running(task, op, phase) == task.op = op /\ task.phase = phase

\* ------------------------------------------------------- the components
\* setInterval(checkConnection, 30000)
CheckInterval == 30000

\* minLength={3} of the username input.
MinUsernameLength == 3

\* Usernames the user may type: strings of up to MaxUsernameLen characters.
Usernames == UNION { [1..n -> {"a"}] : n \in 0..MaxUsernameLen }

\* Names of the files the user may pick or drop.
FileNames == { <<"a", ".", "p", "d", "f">>,
               <<"A", ".", "P", "D", "F">>,
               <<"a", ".", "t", "x", "t">>,
               <<"p", "d", "f">> }

\* The document lists the backend may answer a list query with.
Listings == { <<>>, <<"notes.pdf">> }

\* No uploadFile call yet / no form submission yet.
NoAttempt == [file |-> <<>>, via |-> "none", outcome |-> "none"]
NoSubmission == [op |-> "none", username |-> <<>>, blocked |-> FALSE]

\* The ChatResponse bodies the backend may answer a chat with.
ChatReplies == { [response |-> "answer", sources |-> <<"notes.pdf">>],
                 [response |-> "summary", sources |-> <<"b.pdf", "a.pdf">>] }

NoReply == [response |-> "none", sources |-> <<>>]

\* The messages state of ChatInterface is only ever appended to and read by
\* the render alone: the model keeps what the step just taken received from
\* api.chat and appended to messages.
NoChatStep == [received |-> NoReply, appended |-> <<>>]

\* Index, its children and the login form before they mount.
InitUi ==
    /\ mounted = "no"
    /\ interval = 0
    /\ isConnected = FALSE
    /\ documents = <<>>
    /\ isLoadingDocs = TRUE
    /\ chatLoading = FALSE
    /\ deletingDoc = Null
    /\ dropDisabled = TRUE
    /\ uploadAttempt = NoAttempt
    /\ chatStep = NoChatStep
    /\ formUsername = <<>>
    /\ formLoading = FALSE
    /\ submitted = NoSubmission
    /\ prevAuth = Null

\* No removal is followed.
NoRemoval == [filename |-> <<>>, path |-> <<>>]

\* The module state of api.ts, the AuthProvider before its effects, and the
\* storage a previous visit may have left.
InitGateway ==
    /\ localStorage \in {EmptyStorage} \cup
           { [authToken |-> c.access_token, username |-> c.username] : c \in Credentials }
    /\ user = NoUser
    /\ loading = TRUE
    /\ onUnauthorizedCallback = FALSE
    /\ connectionStatus = Disconnected("none")
    /\ tasks = EmptyBag
    /\ last = NoEvent
    /\ loginCompleted = FALSE

Init ==
    /\ InitUi
    /\ InitGateway
    /\ removal = NoRemoval

\* ------------------------------------------------------------- api.ts core
\* getAuthHeader: the Authorization header is always sent, with an empty
\* value when no token is stored.
getAuthHeader ==
    IF localStorage.authToken # Null
    THEN <<"Bearer", localStorage.authToken>>
    ELSE <<"">>

\* A callback that redirects without clearing the user.
UnauthorizedCallbackKeepsUser(u) == u

\* The body of the callback AuthProvider registers: setUser(null) and the
\* redirect to /login.
UnauthorizedCallback(u) == NoUser

\* An eviction that removes the token and forgets the username key.
handleUnauthorizedKeepsUsername ==
    /\ localStorage' = [localStorage EXCEPT !.authToken = Null]
    /\ user' = IF onUnauthorizedCallback THEN NoUser ELSE user

\* handleUnauthorized: both keys are removed, then the callback runs when
\* one is registered.
handleUnauthorized ==
    /\ localStorage' = EmptyStorage
    /\ user' = IF onUnauthorizedCallback THEN UnauthorizedCallback(user) ELSE user

\* How often handleUnauthorized invokes the callback.
CallbackRuns == IF onUnauthorizedCallback THEN 1 ELSE 0

\* handleFetchError: a message naming a fetch failure marks the backend
\* unreachable and is replaced; any other message is prefixed with the
\* operation.
handleFetchErrorStatus(msg) ==
    IF Includes(msg, "Failed to fetch") \/ Includes(msg, "NetworkError")
    THEN Disconnected("Backend server not reachable. Make sure your FastAPI server is running")
    ELSE connectionStatus

handleFetchErrorThrow(msg, operation) ==
    IF Includes(msg, "Failed to fetch") \/ Includes(msg, "NetworkError")
    THEN Throw(<<"Cannot connect to backend server.">>)
    ELSE Throw(<<operation, ":">> \o msg)

\* Whether the caller's continuation of a settled call runs fetchDocuments
\* of Index: the effect on isConnected turning true, onUploadSuccess after
\* an upload and onDocumentRemoved after a removal.
StartsFetchDocuments(op, result) ==
    \/ op = "checkConnection" /\ result.val = "true" /\ mounted = "yes" /\ ~isConnected
    \/ op \in {"uploadPdf", "removePdf"} /\ result.kind = "return" /\ mounted # "no"
    \/ op \in {"register", "login"} /\ result.kind = "return" /\ mounted = "yes"
           /\ prevAuth = "false" /\ ~isConnected

\* The calls the caller's continuation issues before it suspends again:
\* fetchDocuments calls api.listPdfs, which sends a request when a token is
\* stored.
Continuation(op, result) ==
    LET token == IF op \in {"register", "login"} THEN result.data.access_token
                 ELSE localStorage.authToken
    IN  IF StartsFetchDocuments(op, result) /\ token # Null
        THEN SetToBag({[op |-> "listPdfs", phase |-> "fetch", status |-> 0, file |-> Null,
                        authorization |-> <<"Bearer", token>>]})
        ELSE EmptyBag

\* Finishing a call: its slot is freed, the step is recorded and the
\* caller's continuation runs.
Complete(task, status, sent, result, fired) ==
    /\ last' = Event(task.op, status, sent, result, fired)
    /\ tasks' = (tasks (-) SetToBag({task})) (+) Continuation(task.op, result)

\* A call suspends at its fetch.
Spawn(task) ==
    /\ last' = NoEvent
    /\ tasks' = tasks (+) SetToBag({task})

\* A call in flight suspends again.
Suspend(task, next) ==
    /\ last' = NoEvent
    /\ tasks' = (tasks (-) SetToBag({task})) (+) SetToBag({next})

\* A call that ends before any request is issued.
Immediate(op, result) ==
    /\ last' = Event(op, 0, FALSE, result, 0)
    /\ UNCHANGED tasks

\* ------------------------------------------------------------ AuthProvider
\* A mount that registers the callback and never reads storage.
AuthProviderMountForgets ==
    /\ loading
    /\ loading' = FALSE
    /\ onUnauthorizedCallback' = TRUE
    /\ last' = NoEvent
    /\ UNCHANGED <<localStorage, user, connectionStatus, tasks, loginCompleted>>

\* The two mount effects: the session is rehydrated from storage and the
\* eviction callback is registered.
AuthProviderMount ==
    /\ loading
    /\ user' = IF localStorage.authToken # Null /\ localStorage.username # Null
               THEN [username |-> localStorage.username, authToken |-> localStorage.authToken]
               ELSE user
    /\ loading' = FALSE
    /\ onUnauthorizedCallback' = TRUE
    /\ last' = NoEvent
    /\ UNCHANGED <<localStorage, connectionStatus, tasks, loginCompleted>>

\* ------------------------------------------------------- register / login
AuthFallback(op, status) ==
    IF op = "register" THEN <<"Registration failed with status", ToString(status)>>
    ELSE <<"Login failed with status", ToString(status)>>

\* AuthProvider.register / login call api.register / api.login, which issue
\* the POST without an Authorization header.
AuthFetch(op) ==
    /\ ~loading
    /\ HasRoom
    /\ op \in {"register", "login"}
    /\ Spawn([op |-> op, phase |-> "fetch", status |-> 0, file |-> Null, authorization |-> <<>>])
    /\ UNCHANGED <<localStorage, user, loading, onUnauthorizedCallback, connectionStatus, loginCompleted>>

\* The fetch rejects: the catch rethrows the message, and the AuthProvider
\* method rejects before its setUser.
AuthFetchRejected(task, error) ==
    /\ task.op \in {"register", "login"}
    /\ task.phase = "fetch"
    /\ Complete(task, 0, TRUE, Throw(error), 0)
    /\ UNCHANGED <<localStorage, user, loading, onUnauthorizedCallback, connectionStatus, loginCompleted>>

\* The response arrives: either branch awaits response.json() next.
AuthResponse(task, status) ==
    /\ task.op \in {"register", "login"}
    /\ task.phase = "fetch"
    /\ Suspend(task, [task EXCEPT !.phase = "json", !.status = status])
    /\ UNCHANGED <<localStorage, user, loading, onUnauthorizedCallback, connectionStatus, loginCompleted>>

\* A failed login that also drops the stored session.
AuthErrorJsonClears(task, body) ==
    /\ task.op \in {"register", "login"}
    /\ task.phase = "json"
    /\ ~ResponseOk(task.status)
    /\ localStorage' = EmptyStorage
    /\ user' = NoUser
    /\ Complete(task, task.status, TRUE, Throw(BackendDetail), 0)
    /\ UNCHANGED <<loading, onUnauthorizedCallback, connectionStatus, loginCompleted>>

\* The error body of a non-2xx response has been read:
\* throw new Error(errorData.detail || fallback), rethrown by the catch.
AuthErrorJson(task, body) ==
    /\ task.op \in {"register", "login"}
    /\ task.phase = "json"
    /\ ~ResponseOk(task.status)
    /\ Complete(task, task.status, TRUE,
                Throw(IF body = "detail" THEN BackendDetail
                      ELSE AuthFallback(task.op, task.status)), 0)
    /\ UNCHANGED <<localStorage, user, loading, onUnauthorizedCallback, connectionStatus, loginCompleted>>

\* The body of a 2xx response cannot be decoded: the catch rethrows.
AuthBadJson(task) ==
    /\ task.op \in {"register", "login"}
    /\ task.phase = "json"
    /\ ResponseOk(task.status)
    /\ Complete(task, task.status, TRUE, Throw(SyntaxError), 0)
    /\ UNCHANGED <<localStorage, user, loading, onUnauthorizedCallback, connectionStatus, loginCompleted>>

\* What api.register / api.login store from the decoded LoginResponse.
StoreCredentials(data) == [authToken |-> data.access_token, username |-> data.username]

\* A setUser with the two fields exchanged.
SessionUserSwapped(response) == [username |-> response.access_token, authToken |-> response.username]

\* What the AuthProvider method passes to setUser.
SessionUser(response) == [username |-> response.username, authToken |-> response.access_token]

\* The body of a 2xx response is decoded: both keys are stored, the
\* connection is marked, and the AuthProvider method sets the user.
AuthJson(task, data) ==
    /\ task.op \in {"register", "login"}
    /\ task.phase = "json"
    /\ ResponseOk(task.status)
    /\ localStorage' = StoreCredentials(data)
    /\ connectionStatus' = Connected
    /\ user' = SessionUser(data)
    /\ loginCompleted' = TRUE
    /\ Complete(task, task.status, TRUE, ReturnData(data), 0)
    /\ UNCHANGED <<loading, onUnauthorizedCallback>>

\* ----------------------------------------------------------------- logout
\* A finally block that removes only the token.
logoutFinallyTokenOnly == [localStorage EXCEPT !.authToken = Null]

\* The finally block of api.logout.
logoutFinally == EmptyStorage

\* AuthProvider.logout calls api.logout, which posts with the auth header.
\* The header's Logout button is rendered only while a user is set.
LogoutFetch ==
    /\ ~loading
    /\ user # NoUser
    /\ HasRoom
    /\ Spawn([op |-> "logout", phase |-> "fetch", status |-> 0, file |-> Null,
                   authorization |-> getAuthHeader])
    /\ UNCHANGED <<localStorage, user, loading, onUnauthorizedCallback, connectionStatus, loginCompleted>>

\* A logout whose AuthProvider method forgets setUser(null).
LogoutResponseKeepsUser(task, status) ==
    /\ Running(task, "logout", "fetch")
    /\ localStorage' = logoutFinally
    /\ user' = user
    /\ Complete(task, status, TRUE, Return("void"), 0)
    /\ UNCHANGED <<loading, onUnauthorizedCallback, connectionStatus, loginCompleted>>

\* Any response resolves the fetch; the status is never looked at.  The
\* finally block clears storage and AuthProvider.logout then clears the user.
LogoutResponse(task, status) ==
    /\ Running(task, "logout", "fetch")
    /\ localStorage' = logoutFinally
    /\ user' = NoUser
    /\ Complete(task, status, TRUE, Return("void"), 0)
    /\ UNCHANGED <<loading, onUnauthorizedCallback, connectionStatus, loginCompleted>>

\* A logout whose clearing sits inside the try block: a rejected fetch skips
\* it.
LogoutRejectedSkipsClear(task, error) ==
    /\ Running(task, "logout", "fetch")
    /\ Complete(task, 0, TRUE, Return("void"), 0)
    /\ UNCHANGED <<localStorage, user, loading, onUnauthorizedCallback, connectionStatus, loginCompleted>>

\* The fetch rejects: the catch logs, the finally block still runs.
LogoutRejected(task, error) ==
    /\ Running(task, "logout", "fetch")
    /\ localStorage' = logoutFinally
    /\ user' = NoUser
    /\ Complete(task, 0, TRUE, Return("void"), 0)
    /\ UNCHANGED <<loading, onUnauthorizedCallback, connectionStatus, loginCompleted>>

\* -------------------------------------------------------- checkConnection
CheckConnectionFetch ==
    /\ ~loading
    /\ HasRoom
    /\ Spawn([op |-> "checkConnection", phase |-> "fetch", status |-> 0, file |-> Null,
                   authorization |-> getAuthHeader])
    /\ UNCHANGED <<localStorage, user, loading, onUnauthorizedCallback, connectionStatus, loginCompleted>>

\* A probe that takes any answer other than a 401 as proof of a reachable,
\* healthy backend.
CheckConnectionResponseAnyAnswer(task, status) ==
    /\ Running(task, "checkConnection", "fetch")
    /\ IF status = 401
       THEN /\ handleUnauthorized
            /\ connectionStatus' = Disconnected("Backend server not reachable")
            /\ Complete(task, status, TRUE, Return("false"), CallbackRuns)
       ELSE /\ connectionStatus' = Connected
            /\ Complete(task, status, TRUE, Return("true"), 0)
            /\ UNCHANGED <<localStorage, user>>
    /\ UNCHANGED <<loading, onUnauthorizedCallback, loginCompleted>>

\* A 401 evicts and is then swallowed by the bare catch; any other status
\* is reported as response.ok.
CheckConnectionResponse(task, status) ==
    /\ Running(task, "checkConnection", "fetch")
    /\ IF status = 401
       THEN /\ handleUnauthorized
            /\ connectionStatus' = Disconnected("Backend server not reachable")
            /\ Complete(task, status, TRUE, Return("false"), CallbackRuns)
       ELSE /\ connectionStatus' = [connected |-> ResponseOk(status), error |-> "none"]
            /\ Complete(task, status, TRUE,
                        Return(IF ResponseOk(status) THEN "true" ELSE "false"), 0)
            /\ UNCHANGED <<localStorage, user>>
    /\ UNCHANGED <<loading, onUnauthorizedCallback, loginCompleted>>

\* A probe without its catch: the rejection reaches the caller.
CheckConnectionRejectedThrows(task, error) ==
    /\ Running(task, "checkConnection", "fetch")
    /\ Complete(task, 0, TRUE, Throw(error), 0)
    /\ UNCHANGED <<localStorage, user, loading, onUnauthorizedCallback, connectionStatus, loginCompleted>>

\* A probe that treats an unreachable backend as an expired session.
CheckConnectionRejectedEvicts(task, error) ==
    /\ Running(task, "checkConnection", "fetch")
    /\ handleUnauthorized
    /\ connectionStatus' = Disconnected("Backend server not reachable")
    /\ Complete(task, 0, TRUE, Return("false"), 0)
    /\ UNCHANGED <<loading, onUnauthorizedCallback, loginCompleted>>

\* The fetch rejects or its 5 second timeout aborts it.
CheckConnectionRejected(task, error) ==
    /\ Running(task, "checkConnection", "fetch")
    /\ connectionStatus' = Disconnected("Backend server not reachable")
    /\ Complete(task, 0, TRUE, Return("false"), 0)
    /\ UNCHANGED <<localStorage, user, loading, onUnauthorizedCallback, loginCompleted>>

\* -------------------------------------------------------------- uploadPdf
\* An upload that never looks at the stored token.
UploadPdfFetchUnguarded ==
    /\ ~loading
    /\ HasRoom
    /\ Spawn([op |-> "uploadPdf", phase |-> "fetch", status |-> 0, file |-> Null,
                   authorization |-> <<"Bearer", localStorage.authToken>>])
    /\ UNCHANGED <<localStorage, user, loading, onUnauthorizedCallback, connectionStatus, loginCompleted>>

\* Without a stored token the call throws before any request; otherwise the
\* multipart POST carries the token.
UploadPdfFetch ==
    /\ ~loading
    /\ HasRoom
    /\ IF localStorage.authToken = Null
       THEN Immediate("uploadPdf", Throw(<<"Not authenticated. Please log in first.">>))
       ELSE Spawn([op |-> "uploadPdf", phase |-> "fetch", status |-> 0, file |-> Null,
                        authorization |-> <<"Bearer", localStorage.authToken>>])
    /\ UNCHANGED <<localStorage, user, loading, onUnauthorizedCallback, connectionStatus, loginCompleted>>

\* The catch rethrows the message of whatever was thrown.
UploadPdfRejected(task, error) ==
    /\ Running(task, "uploadPdf", "fetch")
    /\ Complete(task, 0, TRUE, Throw(error), 0)
    /\ UNCHANGED <<localStorage, user, loading, onUnauthorizedCallback, connectionStatus, loginCompleted>>

UploadPdfResponse(task, status) ==
    /\ Running(task, "uploadPdf", "fetch")
    /\ IF status = 401
       THEN /\ handleUnauthorized
            /\ Complete(task, status, TRUE, Throw(<<"Unauthorized">>), CallbackRuns)
            /\ UNCHANGED connectionStatus
       ELSE /\ connectionStatus' = IF ResponseOk(status) THEN Connected ELSE connectionStatus
            /\ Suspend(task, [task EXCEPT !.phase = "json", !.status = status])
            /\ UNCHANGED <<localStorage, user>>
    /\ UNCHANGED <<loading, onUnauthorizedCallback, loginCompleted>>

\* response.json() settles: the error payload of a non-2xx response, or the
\* returned promise of a 2xx response, whose rejection no catch sees.
UploadPdfJson(task, body) ==
    /\ Running(task, "uploadPdf", "json")
    /\ Complete(task, task.status, TRUE,
                IF ResponseOk(task.status)
                THEN (IF body = "unparseable" THEN Throw(SyntaxError) ELSE Return("payload"))
                ELSE Throw(IF body = "detail" THEN BackendDetail
                           ELSE <<"Upload failed with status", ToString(task.status)>>),
                0)
    /\ UNCHANGED <<localStorage, user, loading, onUnauthorizedCallback, connectionStatus, loginCompleted>>

\* --------------------------------------------------------------- listPdfs
\* Without a stored token the call returns [] before any request.
ListPdfsFetch ==
    /\ ~loading
    /\ HasRoom
    /\ IF localStorage.authToken = Null
       THEN Immediate("listPdfs", Return("[]"))
       ELSE Spawn([op |-> "listPdfs", phase |-> "fetch", status |-> 0, file |-> Null,
                        authorization |-> getAuthHeader])
    /\ UNCHANGED <<localStorage, user, loading, onUnauthorizedCallback, connectionStatus, loginCompleted>>

\* What the catch block of listPdfs hands back for any error.
listPdfsCatch(error) == Return("[]")

ListPdfsRejected(task, error) ==
    /\ Running(task, "listPdfs", "fetch")
    /\ Complete(task, 0, TRUE, listPdfsCatch(error), 0)
    /\ UNCHANGED <<localStorage, user, loading, onUnauthorizedCallback, connectionStatus, loginCompleted>>

ListPdfsResponse(task, status) ==
    /\ Running(task, "listPdfs", "fetch")
    /\ IF status = 401
       THEN /\ handleUnauthorized
            /\ Complete(task, status, TRUE, listPdfsCatch(<<"Unauthorized">>), CallbackRuns)
            /\ UNCHANGED connectionStatus
       ELSE IF ~ResponseOk(status)
       THEN /\ Complete(task, status, TRUE, listPdfsCatch(<<"Failed to fetch PDFs">>), 0)
            /\ UNCHANGED <<localStorage, user, connectionStatus>>
       ELSE /\ connectionStatus' = Connected
            /\ Suspend(task, [task EXCEPT !.phase = "json", !.status = status])
            /\ UNCHANGED <<localStorage, user>>
    /\ UNCHANGED <<loading, onUnauthorizedCallback, loginCompleted>>

\* The returned response.json() settles outside the try block.
ListPdfsJson(task, body) ==
    /\ Running(task, "listPdfs", "json")
    /\ Complete(task, task.status, TRUE,
                IF body = "unparseable" THEN Throw(SyntaxError) ELSE Return("payload"), 0)
    /\ UNCHANGED <<localStorage, user, loading, onUnauthorizedCallback, connectionStatus, loginCompleted>>

\* ------------------------------------------------------- removePdf / chat
\* The operation name the catch passes to handleFetchError.
Operation(op) == IF op = "removePdf" THEN "Failed to remove document" ELSE "Chat failed"

\* The message used when the error payload has no detail.
NoDetail(op) == IF op = "removePdf" THEN <<"Failed to remove PDF">> ELSE <<"Failed to get response">>

GuardedFetchOf(op, file) ==
    /\ ~loading
    /\ HasRoom
    /\ op \in {"removePdf", "chat"}
    /\ Spawn([op |-> op, phase |-> "fetch", status |-> 0, file |-> file,
                   authorization |-> getAuthHeader])
    /\ UNCHANGED <<localStorage, user, loading, onUnauthorizedCallback, connectionStatus, loginCompleted>>

\* The same call from a caller whose file name is not followed.
GuardedFetch(op) == GuardedFetchOf(op, Null)

GuardedRejected(task, error) ==
    /\ task.op \in {"removePdf", "chat"}
    /\ task.phase = "fetch"
    /\ connectionStatus' = handleFetchErrorStatus(error)
    /\ Complete(task, 0, TRUE, handleFetchErrorThrow(error, Operation(task.op)), 0)
    /\ UNCHANGED <<localStorage, user, loading, onUnauthorizedCallback, loginCompleted>>

\* A removePdf / chat that never marks the connection on a 2xx response.
GuardedResponseSilent(task, status) ==
    /\ task.op \in {"removePdf", "chat"}
    /\ task.phase = "fetch"
    /\ IF status = 401
       THEN /\ handleUnauthorized
            /\ connectionStatus' = handleFetchErrorStatus(<<"Unauthorized">>)
            /\ Complete(task, status, TRUE,
                        handleFetchErrorThrow(<<"Unauthorized">>, Operation(task.op)),
                        CallbackRuns)
       ELSE /\ Suspend(task, [task EXCEPT !.phase = "json", !.status = status])
            /\ UNCHANGED <<localStorage, user, connectionStatus>>
    /\ UNCHANGED <<loading, onUnauthorizedCallback, loginCompleted>>

GuardedResponse(task, status) ==
    /\ task.op \in {"removePdf", "chat"}
    /\ task.phase = "fetch"
    /\ IF status = 401
       THEN /\ handleUnauthorized
            /\ connectionStatus' = handleFetchErrorStatus(<<"Unauthorized">>)
            /\ Complete(task, status, TRUE,
                        handleFetchErrorThrow(<<"Unauthorized">>, Operation(task.op)),
                        CallbackRuns)
       ELSE /\ connectionStatus' = IF ResponseOk(status) THEN Connected ELSE connectionStatus
            /\ Suspend(task, [task EXCEPT !.phase = "json", !.status = status])
            /\ UNCHANGED <<localStorage, user>>
    /\ UNCHANGED <<loading, onUnauthorizedCallback, loginCompleted>>

\* The message thrown inside the try block once the error payload is read.
GuardedErrorMessage(op, body) ==
    IF body = "unparseable" THEN SyntaxError
    ELSE IF body = "detail" THEN BackendDetail
    ELSE NoDetail(op)

\* response.json() settles: for a non-2xx response the error goes through
\* handleFetchError; for a 2xx response the returned promise settles outside
\* the try block.
GuardedJson(task, body) ==
    /\ task.op \in {"removePdf", "chat"}
    /\ task.phase = "json"
    /\ IF ResponseOk(task.status)
       THEN /\ Complete(task, task.status, TRUE,
                        IF body = "unparseable" THEN Throw(SyntaxError) ELSE Return("payload"), 0)
            /\ UNCHANGED connectionStatus
       ELSE /\ connectionStatus' = handleFetchErrorStatus(GuardedErrorMessage(task.op, body))
            /\ Complete(task, task.status, TRUE,
                        handleFetchErrorThrow(GuardedErrorMessage(task.op, body),
                                              Operation(task.op)), 0)
    /\ UNCHANGED <<localStorage, user, loading, onUnauthorizedCallback, loginCompleted>>

\* The gateway under arbitrary callers: the components stay as they are.
Next ==
    \/ AuthProviderMount /\ UNCHANGED uiVars
    \/ \E op \in {"register", "login"} : AuthFetch(op) /\ UNCHANGED uiVars
    \/ \E task \in InFlight, error \in FetchErrors : AuthFetchRejected(task, error) /\ UNCHANGED uiVars
    \/ \E task \in InFlight, status \in Statuses : AuthResponse(task, status) /\ UNCHANGED uiVars
    \/ \E task \in InFlight, body \in ErrorBodies : AuthErrorJson(task, body) /\ UNCHANGED uiVars
    \/ \E task \in InFlight : AuthBadJson(task) /\ UNCHANGED uiVars
    \/ \E task \in InFlight, data \in Credentials : AuthJson(task, data) /\ UNCHANGED uiVars
    \/ LogoutFetch /\ UNCHANGED uiVars
    \/ \E task \in InFlight, status \in Statuses : LogoutResponse(task, status) /\ UNCHANGED uiVars
    \/ \E task \in InFlight, error \in FetchErrors : LogoutRejected(task, error) /\ UNCHANGED uiVars
    \/ CheckConnectionFetch /\ UNCHANGED uiVars
    \/ \E task \in InFlight, status \in Statuses : CheckConnectionResponse(task, status) /\ UNCHANGED uiVars
    \/ \E task \in InFlight, error \in FetchErrors \cup {TimeoutError} : CheckConnectionRejected(task, error) /\ UNCHANGED uiVars
    \/ UploadPdfFetch /\ UNCHANGED uiVars
    \/ \E task \in InFlight, error \in FetchErrors : UploadPdfRejected(task, error) /\ UNCHANGED uiVars
    \/ \E task \in InFlight, status \in Statuses : UploadPdfResponse(task, status) /\ UNCHANGED uiVars
    \/ \E task \in InFlight, body \in ErrorBodies : UploadPdfJson(task, body) /\ UNCHANGED uiVars
    \/ ListPdfsFetch /\ UNCHANGED uiVars
    \/ \E task \in InFlight, error \in FetchErrors : ListPdfsRejected(task, error) /\ UNCHANGED uiVars
    \/ \E task \in InFlight, status \in Statuses : ListPdfsResponse(task, status) /\ UNCHANGED uiVars
    \/ \E task \in InFlight, body \in ErrorBodies : ListPdfsJson(task, body) /\ UNCHANGED uiVars
    \/ \E op \in {"removePdf", "chat"} : GuardedFetch(op) /\ UNCHANGED uiVars
    \/ \E task \in InFlight, error \in FetchErrors : GuardedRejected(task, error) /\ UNCHANGED uiVars
    \/ \E task \in InFlight, status \in Statuses : GuardedResponse(task, status) /\ UNCHANGED uiVars
    \/ \E task \in InFlight, body \in ErrorBodies : GuardedJson(task, body) /\ UNCHANGED uiVars

Spec == Init /\ [][Next]_vars

\* A gateway or component step that leaves the gateway as it is.
GatewayIdle ==
    /\ last' = NoEvent
    /\ UNCHANGED gatewayVars

\* -------------------------------------------------------------- LoginForm
\* A username input validated by required alone.
CheckValidityRequiredOnly(username) == Len(username) > 0

\* The constraint validation the form runs before its submit event: the
\* username input is required and has minLength 3.
CheckValidity(username) == Len(username) > 0 /\ Len(username) >= MinUsernameLength

\* The user edits the username input, which is disabled while a
\* submission is pending.
FormType(username) ==
    /\ ~loading
    /\ ~formLoading
    /\ formUsername' = username
    /\ GatewayIdle
    /\ UNCHANGED <<formLoading, submitted, appVars, removal, prevAuth>>

\* The user submits the form.  An invalid input stops the submission
\* before handleSubmit; otherwise handleRegister / handleLogin set
\* isLoading and call register / login of the AuthProvider.
FormSubmit(op) ==
    /\ ~loading
    /\ ~formLoading
    /\ IF CheckValidity(formUsername)
       THEN /\ AuthFetch(op)
            /\ formLoading' = TRUE
            /\ submitted' = [op |-> op, username |-> formUsername, blocked |-> FALSE]
       ELSE /\ GatewayIdle
            /\ submitted' = [op |-> op, username |-> formUsername, blocked |-> TRUE]
            /\ UNCHANGED formLoading
    /\ UNCHANGED <<formUsername, appVars, removal, prevAuth>>

\* What follows a gateway step in the form: the catch of handleRegister /
\* handleLogin clears isLoading; a success navigates away.
FormContinuation ==
    /\ formLoading' = IF last'.op \in {"register", "login"} /\ last'.result.kind = "throw"
                      THEN FALSE ELSE formLoading
    /\ UNCHANGED <<formUsername, submitted, appVars, removal, prevAuth>>

\* The login page: the form drives register and login.
NextForm ==
    \/ AuthProviderMount /\ UNCHANGED uiVars
    \/ \E username \in Usernames : FormType(username)
    \/ \E op \in {"register", "login"} : FormSubmit(op)
    \/ \E task \in InFlight, error \in FetchErrors : AuthFetchRejected(task, error) /\ FormContinuation
    \/ \E task \in InFlight, status \in Statuses : AuthResponse(task, status) /\ FormContinuation
    \/ \E task \in InFlight, body \in ErrorBodies : AuthErrorJson(task, body) /\ FormContinuation
    \/ \E task \in InFlight : AuthBadJson(task) /\ FormContinuation
    \/ \E task \in InFlight, data \in Credentials : AuthJson(task, data) /\ FormContinuation

SpecForm == Init /\ [][NextForm]_vars

\* ------------------------------------------------ Index and its children
\* String.prototype.toLowerCase over the letters of the file names.
ToLowerChar(c) ==
    CASE c = "A" -> "a"
      [] c = "P" -> "p"
      [] c = "D" -> "d"
      [] c = "F" -> "f"
      [] OTHER -> c

ToLowerCase(name) == [i \in 1..Len(name) |-> ToLowerChar(name[i])]

\* String.prototype.endsWith
EndsWith(name, suffix) ==
    /\ Len(name) >= Len(suffix)
    /\ SubSeq(name, Len(name) - Len(suffix) + 1, Len(name)) = suffix

PdfSuffix == <<".", "p", "d", "f">>

\* An uploadFile that accepts any file name.
uploadFileAnyName(disabled, name) ==
    IF disabled THEN "Backend not connected" ELSE "upload"

\* The two early returns of uploadFile, each with its toast, before the
\* call of api.uploadPdf.
uploadFile(disabled, name) ==
    IF disabled THEN "Backend not connected"
    ELSE IF ~EndsWith(ToLowerCase(name), PdfSuffix) THEN "Invalid file type"
    ELSE "upload"

\* setState of a component that may have unmounted meanwhile.
SetState(old, new) == IF mounted = "yes" THEN new ELSE old

\* Index mounts after the AuthProvider: the effect of ConnectionStatus
\* starts the first probe and the 30 second timer, the effect of Index
\* finds isConnected false, and handleDrop keeps the uploadFile of this
\* first render.
IndexMount ==
    /\ mounted = "no"
    /\ CheckConnectionFetch
    /\ mounted' = "yes"
    /\ interval' = CheckInterval
    /\ isLoadingDocs' = FALSE
    /\ dropDisabled' = ~isConnected
    /\ uploadAttempt' = NoAttempt
    /\ chatStep' = NoChatStep
    /\ UNCHANGED <<isConnected, documents, chatLoading, deletingDoc, formVars, removal, prevAuth>>

\* The timer fires for as long as it is not cleared.
IntervalTick ==
    /\ interval # 0
    /\ CheckConnectionFetch
    /\ uploadAttempt' = NoAttempt
    /\ chatStep' = NoChatStep
    /\ UNCHANGED <<mounted, interval, isConnected, documents, isLoadingDocs,
                   chatLoading, deletingDoc, dropDisabled, formVars, removal, prevAuth>>

\* An unmount whose cleanup leaves the timer running.
IndexUnmountKeepsInterval ==
    /\ mounted = "yes"
    /\ mounted' = "gone"
    /\ uploadAttempt' = NoAttempt
    /\ chatStep' = NoChatStep
    /\ GatewayIdle
    /\ UNCHANGED <<interval, isConnected, documents, isLoadingDocs, chatLoading,
                   deletingDoc, dropDisabled, formVars, removal, prevAuth>>

\* The view is torn down: the cleanup of the effect clears the interval.
IndexUnmount ==
    /\ mounted = "yes"
    /\ mounted' = "gone"
    /\ interval' = 0
    /\ uploadAttempt' = NoAttempt
    /\ chatStep' = NoChatStep
    /\ GatewayIdle
    /\ UNCHANGED <<isConnected, documents, isLoadingDocs, chatLoading,
                   deletingDoc, dropDisabled, formVars, removal, prevAuth>>

\* The entries handleSubmit appends to messages: the user's query, then
\* the assistant's reply or the error of the failed call.
UserMessage == [type |-> "user", content |-> <<"query">>, sources |-> <<>>]

ErrorMessage(msg) == [type |-> "error", content |-> msg, sources |-> <<>>]

\* An assistant entry that leaves the sources out.
AssistantMessageNoSources(reply) ==
    [type |-> "assistant", content |-> <<reply.response>>, sources |-> <<>>]

AssistantMessage(reply) ==
    [type |-> "assistant", content |-> <<reply.response>>, sources |-> reply.sources]

\* A handleSubmit that does not look at isLoading.
ChatSubmitWhileLoading ==
    /\ mounted = "yes"
    /\ documents # <<>>
    /\ GuardedFetch("chat")
    /\ chatLoading' = TRUE
    /\ uploadAttempt' = NoAttempt
    /\ chatStep' = [received |-> NoReply, appended |-> <<UserMessage>>]
    /\ UNCHANGED <<mounted, interval, isConnected, documents, isLoadingDocs,
                   deletingDoc, dropDisabled, formVars, removal, prevAuth>>

\* ChatInterface.handleSubmit with a non-empty input: it returns early
\* while a reply is pending or no document is listed.
ChatSubmit ==
    /\ mounted = "yes"
    /\ ~chatLoading
    /\ documents # <<>>
    /\ GuardedFetch("chat")
    /\ chatLoading' = TRUE
    /\ uploadAttempt' = NoAttempt
    /\ chatStep' = [received |-> NoReply, appended |-> <<UserMessage>>]
    /\ UNCHANGED <<mounted, interval, isConnected, documents, isLoadingDocs,
                   deletingDoc, dropDisabled, formVars, removal, prevAuth>>

\* DocumentList.handleDelete from the remove button of a listed document;
\* the list is replaced by a spinner while isLoading, and the button of the
\* document being deleted is disabled.
DeleteClick(doc) ==
    /\ mounted = "yes"
    /\ \E i \in 1..Len(documents) : documents[i] = doc
    /\ ~(isLoadingDocs /\ isConnected)
    /\ deletingDoc # doc
    /\ GuardedFetchOf("removePdf", doc)
    /\ deletingDoc' = doc
    /\ uploadAttempt' = NoAttempt
    /\ chatStep' = NoChatStep
    /\ UNCHANGED <<mounted, interval, isConnected, documents, isLoadingDocs,
                   chatLoading, dropDisabled, formVars, removal, prevAuth>>

\* The user hands a file to DocumentUpload.  While the disabled prop is
\* set the input is disabled and the drop zone has no onDrop handler;
\* otherwise uploadFile runs with the disabled value its caller closed over.
Upload(name, via, disabled) ==
    /\ ~loading
    /\ mounted = "yes"
    /\ LET outcome == IF ~isConnected THEN "inert" ELSE uploadFile(disabled, name)
       IN  /\ uploadAttempt' = [file |-> name, via |-> via, outcome |-> outcome]
           /\ IF outcome = "upload" THEN UploadPdfFetch ELSE GatewayIdle
    /\ chatStep' = NoChatStep
    /\ UNCHANGED <<mounted, interval, isConnected, documents, isLoadingDocs,
                   chatLoading, deletingDoc, dropDisabled, formVars, removal, prevAuth>>

\* handleFileSelect calls the uploadFile of the current render.
UploadPick(name) == Upload(name, "pick", ~isConnected)

\* handleDrop is memoised with no dependencies: it calls the uploadFile of
\* the first render.
UploadDrop(name) == Upload(name, "drop", dropDisabled)

\* A handleSubmit that resets isLoading only at the end of its try block.
handleSubmitNoFinally(isLoading) == IF last'.result.kind = "throw" THEN isLoading ELSE FALSE

\* The finally block of handleSubmit: setIsLoading(false).
handleSubmitFinally(isLoading) == FALSE

\* What the callers in Index and its children do with a gateway step:
\* ConnectionStatus reports the probe to Index, whose effect reloads the
\* list or stops its spinner; fetchDocuments stores the list; the finally
\* try and catch blocks of handleSubmit append the reply or the error, and
\* the finally blocks of handleSubmit and handleDelete reset their flags.
AppContinuationOver(listings) ==
    LET e == last' IN
    /\ isConnected' = IF e.op = "checkConnection"
                      THEN SetState(isConnected, e.result.val = "true")
                      ELSE isConnected
    /\ chatLoading' = IF e.op = "chat"
                      THEN SetState(chatLoading, handleSubmitFinally(chatLoading))
                      ELSE chatLoading
    /\ deletingDoc' = IF e.op = "removePdf" THEN SetState(deletingDoc, Null) ELSE deletingDoc
    /\ IF mounted # "yes" THEN UNCHANGED <<documents, isLoadingDocs>>
       ELSE IF e.op = "listPdfs"
       THEN /\ isLoadingDocs' = FALSE
            /\ IF e.result.kind = "throw" THEN UNCHANGED documents
               ELSE IF e.result.val = "[]" THEN documents' = <<>>
               ELSE documents' \in listings
       ELSE IF StartsFetchDocuments(e.op, e.result)
       THEN IF localStorage.authToken = Null
            THEN documents' = <<>> /\ isLoadingDocs' = FALSE
            ELSE isLoadingDocs' = TRUE /\ UNCHANGED documents
       ELSE IF e.op = "checkConnection" /\ isConnected /\ e.result.val # "true"
       THEN isLoadingDocs' = FALSE /\ UNCHANGED documents
       ELSE UNCHANGED <<documents, isLoadingDocs>>
    /\ uploadAttempt' = NoAttempt
    /\ IF e.op # "chat" THEN chatStep' = NoChatStep
       ELSE IF e.result.kind = "throw"
       THEN chatStep' = [received |-> NoReply,
                         appended |-> SetState(<<>>, <<ErrorMessage(e.result.msg)>>)]
       ELSE \E reply \in ChatReplies :
                chatStep' = [received |-> reply,
                             appended |-> SetState(<<>>, <<AssistantMessage(reply)>>)]
    /\ UNCHANGED <<mounted, interval, dropDisabled, formVars, removal, prevAuth>>

AppContinuation == AppContinuationOver(Listings)

\* The workspace page: the monitor, the upload zone, the document list and
\* the chat drive the gateway.
NextApp ==
    \/ AuthProviderMount /\ UNCHANGED uiVars
    \/ IndexMount
    \/ IntervalTick
    \/ IndexUnmount
    \/ ChatSubmit
    \/ \E doc \in {"notes.pdf"} : DeleteClick(doc)
    \/ \E name \in FileNames : UploadPick(name)
    \/ \E name \in FileNames : UploadDrop(name)
    \/ \E task \in InFlight, status \in Statuses : CheckConnectionResponse(task, status) /\ AppContinuation
    \/ \E task \in InFlight, error \in FetchErrors \cup {TimeoutError} : CheckConnectionRejected(task, error) /\ AppContinuation
    \/ \E task \in InFlight, error \in FetchErrors : UploadPdfRejected(task, error) /\ AppContinuation
    \/ \E task \in InFlight, status \in Statuses : UploadPdfResponse(task, status) /\ AppContinuation
    \/ \E task \in InFlight, body \in ErrorBodies : UploadPdfJson(task, body) /\ AppContinuation
    \/ \E task \in InFlight, error \in FetchErrors : ListPdfsRejected(task, error) /\ AppContinuation
    \/ \E task \in InFlight, status \in Statuses : ListPdfsResponse(task, status) /\ AppContinuation
    \/ \E task \in InFlight, body \in ErrorBodies : ListPdfsJson(task, body) /\ AppContinuation
    \/ \E task \in InFlight, error \in FetchErrors : GuardedRejected(task, error) /\ AppContinuation
    \/ \E task \in InFlight, status \in Statuses : GuardedResponse(task, status) /\ AppContinuation
    \/ \E task \in InFlight, body \in ErrorBodies : GuardedJson(task, body) /\ AppContinuation

SpecApp == Init /\ [][NextApp]_vars

\* ------------------------------------------------ DocumentList, two documents
\* The lists a backend holding up to two documents returns.
ListingsOfTwo == { <<>>, <<"notes.pdf">>, <<"slides.pdf">>, <<"notes.pdf", "slides.pdf">> }

AppContinuationOfTwo == AppContinuationOver(ListingsOfTwo)

\* The workspace page of a user who only looks at the list and removes
\* documents from it.
NextList ==
    \/ AuthProviderMount /\ UNCHANGED uiVars
    \/ IndexMount
    \/ IntervalTick
    \/ \E doc \in {"notes.pdf", "slides.pdf"} : DeleteClick(doc)
    \/ \E task \in InFlight, status \in Statuses : CheckConnectionResponse(task, status) /\ AppContinuationOfTwo
    \/ \E task \in InFlight, error \in FetchErrors : CheckConnectionRejected(task, error) /\ AppContinuationOfTwo
    \/ \E task \in InFlight, error \in FetchErrors : ListPdfsRejected(task, error) /\ AppContinuationOfTwo
    \/ \E task \in InFlight, status \in Statuses : ListPdfsResponse(task, status) /\ AppContinuationOfTwo
    \/ \E task \in InFlight, body \in ErrorBodies : ListPdfsJson(task, body) /\ AppContinuationOfTwo
    \/ \E task \in InFlight, error \in FetchErrors : GuardedRejected(task, error) /\ AppContinuationOfTwo
    \/ \E task \in InFlight, status \in Statuses : GuardedResponse(task, status) /\ AppContinuationOfTwo
    \/ \E task \in InFlight, body \in ErrorBodies : GuardedJson(task, body) /\ AppContinuationOfTwo

SpecList == Init /\ [][NextList]_vars

\* ------------------------------------- ConnectionStatus, auth-derived variant
\* isAuthenticated: !!user, as the indicator keeps it in prevAuth.
isAuthenticated(u) == IF u # NoUser THEN "true" ELSE "false"

\* Index mounts with the auth-derived indicator: no probe and no timer;
\* prevAuth starts as the isAuthenticated of this first render, so the
\* effect of the indicator finds nothing to report, and the effect of Index
\* finds isConnected false.
IndexMountAuthDerived ==
    /\ ~loading
    /\ mounted = "no"
    /\ prevAuth = Null
    /\ mounted' = "yes"
    /\ prevAuth' = isAuthenticated(user)
    /\ isLoadingDocs' = FALSE
    /\ dropDisabled' = ~isConnected
    /\ uploadAttempt' = NoAttempt
    /\ chatStep' = NoChatStep
    /\ GatewayIdle
    /\ UNCHANGED <<interval, isConnected, documents, chatLoading, deletingDoc,
                   formVars, removal>>

\* What the indicator and Index do after a gateway step: when
\* isAuthenticated differs from prevAuth the effect reports it to Index and
\* stores it; the effect of Index then reloads the list or stops its
\* spinner, and fetchDocuments stores the list it receives.
IndicatorContinuation ==
    LET e == last'
        auth == isAuthenticated(user')
        changed == prevAuth # Null /\ prevAuth # auth
    IN  /\ prevAuth' = IF changed THEN auth ELSE prevAuth
        /\ isConnected' = IF changed THEN (auth = "true") ELSE isConnected
        /\ IF mounted # "yes" THEN UNCHANGED <<documents, isLoadingDocs>>
           ELSE IF e.op = "listPdfs"
           THEN /\ isLoadingDocs' = FALSE
                /\ IF e.result.val = "[]" THEN documents' = <<>>
                   ELSE documents' \in Listings
           ELSE IF changed /\ auth = "true" /\ ~isConnected
           THEN isLoadingDocs' = TRUE /\ UNCHANGED documents
           ELSE IF changed /\ auth = "false" /\ isConnected
           THEN isLoadingDocs' = FALSE /\ UNCHANGED documents
           ELSE UNCHANGED <<documents, isLoadingDocs>>
        /\ uploadAttempt' = NoAttempt
        /\ chatStep' = NoChatStep
        /\ UNCHANGED <<mounted, interval, chatLoading, deletingDoc, dropDisabled,
                       formVars, removal>>

\* The session operations and the list query under a workspace page that
\* carries the auth-derived indicator; login and register may also be
\* called from the login page before the workspace mounts.
NextIndicator ==
    \/ AuthProviderMount /\ UNCHANGED uiVars
    \/ IndexMountAuthDerived
    \/ \E op \in {"register", "login"} : AuthFetch(op) /\ IndicatorContinuation
    \/ \E task \in InFlight, error \in FetchErrors : AuthFetchRejected(task, error) /\ IndicatorContinuation
    \/ \E task \in InFlight, status \in Statuses : AuthResponse(task, status) /\ IndicatorContinuation
    \/ \E task \in InFlight, body \in ErrorBodies : AuthErrorJson(task, body) /\ IndicatorContinuation
    \/ \E task \in InFlight : AuthBadJson(task) /\ IndicatorContinuation
    \/ \E task \in InFlight, data \in Credentials : AuthJson(task, data) /\ IndicatorContinuation
    \/ LogoutFetch /\ IndicatorContinuation
    \/ \E task \in InFlight, status \in Statuses : LogoutResponse(task, status) /\ IndicatorContinuation
    \/ \E task \in InFlight, error \in FetchErrors : LogoutRejected(task, error) /\ IndicatorContinuation
    \/ \E task \in InFlight, error \in FetchErrors : ListPdfsRejected(task, error) /\ IndicatorContinuation
    \/ \E task \in InFlight, status \in Statuses : ListPdfsResponse(task, status) /\ IndicatorContinuation
    \/ \E task \in InFlight, body \in ErrorBodies : ListPdfsJson(task, body) /\ IndicatorContinuation

SpecIndicator == Init /\ [][NextIndicator]_vars

\* --------------------------------------------------- removePdf's request
\* The characters of the file names: unreserved ones, a space, characters
\* with a meaning in a URL, and one outside ASCII (U+00E9).
Alphabet == {".", "2", "F", " ", "%", "/", "U+00E9"}

\* The UTF-8 bytes of a character, each as two hexadecimal digits.
Utf8(c) ==
    CASE c = "."      -> << <<"2", "E">> >>
      [] c = "2"      -> << <<"3", "2">> >>
      [] c = "F"      -> << <<"4", "6">> >>
      [] c = " "      -> << <<"2", "0">> >>
      [] c = "%"      -> << <<"2", "5">> >>
      [] c = "/"      -> << <<"2", "F">> >>
      [] c = "U+00E9" -> << <<"C", "3">>, <<"A", "9">> >>

\* The file names of length 1..MaxNameLen; no file is called . or ..
RemovableNames ==
    UNION { [1..n -> Alphabet] : n \in 1..MaxNameLen } \ { <<".">>, <<".", ".">> }

\* encodeURIComponent leaves letters, digits and - _ . ! ~ * ' ( ) alone.
Unreserved(c) == c \in {".", "2", "F"}

\* encodeURI also leaves the reserved characters ; / ? : @ & = + $ , # alone.
UnescapedByEncodeURI(c) == c \in {".", "2", "F", "/"}

RECURSIVE EscapeBytes(_)
\* Each byte becomes % followed by its two digits.
EscapeBytes(bytes) ==
    IF bytes = <<>> THEN <<>>
    ELSE <<"%", Head(bytes)[1], Head(bytes)[2]>> \o EscapeBytes(Tail(bytes))

RECURSIVE encodeURI(_)
\* The encoding for whole URLs, which keeps a slash.
encodeURI(name) ==
    IF name = <<>> THEN <<>>
    ELSE (IF UnescapedByEncodeURI(Head(name)) THEN <<Head(name)>>
          ELSE EscapeBytes(Utf8(Head(name)))) \o encodeURI(Tail(name))

RECURSIVE encodeURIComponent(_)
encodeURIComponent(name) ==
    IF name = <<>> THEN <<>>
    ELSE (IF Unreserved(Head(name)) THEN <<Head(name)>>
          ELSE EscapeBytes(Utf8(Head(name)))) \o encodeURIComponent(Tail(name))

\* A path built with the encoding for whole URLs.
RemovePathEncodeURI(filename) == <<"/", "remove_pdf", "/">> \o encodeURI(filename)

\* The path of the DELETE request: `/remove_pdf/${encodeURIComponent(filename)}`.
RemovePath(filename) == <<"/", "remove_pdf", "/">> \o encodeURIComponent(filename)

RECURSIVE PathSegments(_, _)
\* The server splits the path at its slashes: the segments so far, the last
\* one still open.
PathSegments(path, segments) ==
    IF path = <<>> THEN segments
    ELSE IF Head(path) = "/" THEN PathSegments(Tail(path), Append(segments, <<>>))
    ELSE PathSegments(Tail(path),
                      [segments EXCEPT ![Len(segments)] = Append(@, Head(path))])

RECURSIVE PercentDecode(_)
\* Percent-decoding to bytes: %XY becomes the byte XY, any other character
\* its own bytes; a % without two digits after it stays as it is.
PercentDecode(segment) ==
    IF segment = <<>> THEN <<>>
    ELSE IF Head(segment) = "%" /\ Len(segment) >= 3
    THEN << <<segment[2], segment[3]>> >> \o PercentDecode(SubSeq(segment, 4, Len(segment)))
    ELSE Utf8(Head(segment)) \o PercentDecode(Tail(segment))

RECURSIVE Utf8Decode(_)
\* The decoded bytes are read as UTF-8: a byte C3 takes the next byte with
\* it, any other byte is one character.
Utf8Decode(units) ==
    IF units = <<>> THEN <<>>
    ELSE IF Head(units) = <<"C", "3">> /\ Len(units) >= 2
    THEN <<CHOOSE c \in Alphabet \cup {"?"} :
               c = "?" \/ Utf8(c) = <<units[1], units[2]>> >>
         \o Utf8Decode(SubSeq(units, 3, Len(units)))
    ELSE <<CHOOSE c \in Alphabet \cup {"?"} : c = "?" \/ Utf8(c) = <<Head(units)>> >>
         \o Utf8Decode(Tail(units))

\* What the backend route /remove_pdf/{filename} receives: the decoded
\* segments after the route's prefix.
RouteParameters(path) ==
    LET segments == PathSegments(path, <<>>)
    IN  [i \in 1..(Len(segments) - 1) |-> Utf8Decode(PercentDecode(segments[i + 1]))]

\* The document to remove is chosen, nothing is requested yet.
InitRemove ==
    /\ InitUi
    /\ InitGateway
    /\ removal \in { [filename |-> name, path |-> <<>>] : name \in RemovableNames }

\* api.removePdf(filename) issues its DELETE request.
RemovePdf ==
    /\ removal.path = <<>>
    /\ GuardedFetch("removePdf")
    /\ removal' = [removal EXCEPT !.path = RemovePath(removal.filename)]
    /\ UNCHANGED <<appVars, formVars, prevAuth>>

\* One removal from its request to its outcome.
NextRemove ==
    \/ AuthProviderMount /\ UNCHANGED uiVars
    \/ RemovePdf
    \/ \E task \in InFlight, error \in FetchErrors : GuardedRejected(task, error) /\ UNCHANGED uiVars
    \/ \E task \in InFlight, status \in Statuses : GuardedResponse(task, status) /\ UNCHANGED uiVars
    \/ \E task \in InFlight, body \in ErrorBodies : GuardedJson(task, body) /\ UNCHANGED uiVars

SpecRemove == InitRemove /\ [][NextRemove]_vars

\* ================================================================ claims
\* The operations that send the bearer credential.
BearerOps == {"logout", "listPdfs", "uploadPdf", "removePdf", "chat", "checkConnection"}

\* The step just taken ended a register or login call in failure: its fetch
\* was rejected or its response was not 2xx.
AuthCallFailed(e) ==
    /\ e.op \in {"register", "login"}
    /\ (e.status = 0 \/ ~ResponseOk(e.status))

\* C1: between steps the persisted auth token is present if and only if the
\* persisted username is present, whatever register, login, logout, eviction
\* and other gateway steps have interleaved.
C1_TokenIffUsername ==
    (localStorage.authToken # Null) <=> (localStorage.username # Null)

\* An eviction that follows a completed login has emptied both keys.
C1_Witness ==
    /\ loginCompleted
    /\ last.status = 401
    /\ last.fired = 1
    /\ last.wasAuthenticated
    /\ localStorage = EmptyStorage

\* C2: a 401 received by any bearer operation while a user is set leaves no
\* user and neither key persisted.
C2_EvictedOn401 ==
    (last.op \in BearerOps /\ last.status = 401 /\ last.wasAuthenticated)
        => (user = NoUser /\ localStorage.authToken = Null /\ localStorage.username = Null)

\* The document list query was the call that received the 401.
C2_Witness ==
    /\ last.op = "listPdfs"
    /\ last.status = 401
    /\ last.wasAuthenticated
    /\ user = NoUser
    /\ localStorage = EmptyStorage

\* C3: the eviction callback runs only in a step that takes the session from
\* Authenticated to Unauthenticated, so never for a 401 that arrives when no
\* user is set (a second 401 of the same session, or a 401 with no session).
C3_CallbackOncePerTransition ==
    last.fired = 1 => last.wasAuthenticated

\* C4: once a login has completed, a completed logout leaves no user and
\* neither key persisted.
C4_LoginThenLogout ==
    (loginCompleted /\ last.op = "logout")
        => (user = NoUser /\ localStorage = EmptyStorage)

\* A logout completed after a login, from a session that was still set.
C4_Witness ==
    /\ loginCompleted
    /\ last.op = "logout"
    /\ last.wasAuthenticated
    /\ ResponseOk(last.status)
    /\ user = NoUser

\* C5: after a register or login call returns, the persisted token and
\* username are present and equal to the access_token and username of the
\* response, and the user in memory holds the same two values.
C5_StoredAsReturned ==
    (last.op \in {"register", "login"} /\ last.result.kind = "return")
        => /\ localStorage.authToken = last.result.data.access_token
           /\ localStorage.username = last.result.data.username
           /\ localStorage.authToken \notin {Null, ""}
           /\ localStorage.username \notin {Null, ""}
           /\ user.authToken = last.result.data.access_token
           /\ user.username = last.result.data.username

\* A registration returned the second credential pair over an existing
\* session.
C5_Witness ==
    /\ last.op = "register"
    /\ last.result.kind = "return"
    /\ last.wasAuthenticated
    /\ user = [username |-> "bob", authToken |-> "t2"]

\* C6: a register or login call whose fetch is rejected or whose response
\* is not 2xx throws to its caller and changes neither the user nor the two
\* persisted keys.
C6_FailedAuthChangesNothing ==
    [][AuthCallFailed(last')
          => (last'.result.kind = "throw" /\ user' = user /\ localStorage' = localStorage)]_vars

\* A login was refused while a session was in place, and the session is
\* still there.
C6_Witness ==
    /\ last.op = "login"
    /\ last.status = 401
    /\ last.result.kind = "throw"
    /\ last.wasAuthenticated
    /\ user # NoUser
    /\ localStorage.authToken # Null

\* C7: a logout from a set user ends with no user and neither key persisted
\* and returns normally, for every answer of the server and for a rejected
\* fetch alike.
C7_LogoutAlwaysClears ==
    (last.op = "logout" /\ last.wasAuthenticated)
        => /\ last.result.kind = "return"
           /\ user = NoUser
           /\ localStorage.authToken = Null
           /\ localStorage.username = Null

\* The logout request failed at transport level and the session is gone.
C7_Witness ==
    /\ last.op = "logout"
    /\ last.status = 0
    /\ last.wasAuthenticated
    /\ user = NoUser
    /\ localStorage = EmptyStorage

\* C8: a 401 makes every operation other than register and login throw an
\* error that says Unauthorized.
C8_UnauthorizedOutcome ==
    (last.op \in BearerOps /\ last.status = 401)
        => (last.result.kind = "throw" /\ Includes(last.result.msg, "Unauthorized"))

\* C9: when the request of register, login, listPdfs, uploadPdf, removePdf
\* or chat is rejected or answered with a non-2xx status, the caller gets a
\* thrown error, never a returned value.
C9_NoSwallowedFailure ==
    (/\ last.op \in {"register", "login", "listPdfs", "uploadPdf", "removePdf", "chat"}
     /\ last.sent
     /\ (last.status = 0 \/ ~ResponseOk(last.status)))
        => last.result.kind = "throw"

\* C10: connectionStatus.connected is true right after any operation
\* completes with a 2xx response.
C10_ConnectedAfterSuccess ==
    (last.op \in Ops /\ last.sent /\ ResponseOk(last.status) /\ last.result.kind = "return")
        => connectionStatus.connected

\* The operations whose failure is handed on to the calling component.
ThrowingOps == {"register", "login", "listPdfs", "uploadPdf", "removePdf", "chat"}

\* The message handleFetchError throws for an unreachable backend.
NetworkUnreachable == <<"Cannot connect to backend server.">>

\* The generic messages the operations fall back to when the error payload
\* gives no detail.
IsFallback(msg) ==
    \/ Includes(msg, "Registration failed with status")
    \/ Includes(msg, "Login failed with status")
    \/ Includes(msg, "Upload failed with status")
    \/ Includes(msg, "Failed to fetch PDFs")
    \/ Includes(msg, "Failed to remove PDF")
    \/ Includes(msg, "Failed to get response")

\* A call of the bag tasks' that the step has just put in flight.
Issued(task) ==
    /\ task.phase = "fetch"
    /\ CopiesIn(task, tasks') > CopiesIn(task, tasks)

\* C11: right after any operation's fetch is rejected at transport level,
\* connectionStatus.connected is false and an error message is set.
C11_DisconnectedAfterTransportFailure ==
    (last.op \in Ops /\ last.sent /\ last.status = 0)
        => (~connectionStatus.connected /\ connectionStatus.error # "none")

\* C12: a transport-level failure of an operation that reports failures
\* reaches its caller as the NetworkUnreachable error, never as the raw
\* message of the rejected fetch or an operation-prefixed error.
C12_TransportFailureIsNetworkUnreachable ==
    (last.op \in ThrowingOps /\ last.sent /\ last.status = 0)
        => (last.result.kind = "throw" /\ last.result.msg = NetworkUnreachable)

\* C13: a non-2xx response other than 401 makes the call throw an error
\* whose message is the backend's detail or the operation's generic
\* fallback, never the parser's complaint about the error payload.
C13_ApplicationError ==
    (last.op \in ThrowingOps /\ last.sent /\ last.status = 500)
        => /\ last.result.kind = "throw"
           /\ (Includes(last.result.msg, "backend detail") \/ IsFallback(last.result.msg))

\* C15: every request a bearer operation puts in flight carries
\* Authorization: Bearer <token> with the token persisted at that moment,
\* and carries no Authorization header when no token is persisted.
C15_BearerOrNoHeader ==
    [][\A task \in BagToSet(tasks') :
          (Issued(task) /\ task.op \in BearerOps)
              => task.authorization =
                     (IF localStorage.authToken # Null
                      THEN <<"Bearer", localStorage.authToken>>
                      ELSE <<>>)]_vars

\* C16: checkConnection always returns a boolean to its caller, and returns
\* false with connectionStatus disconnected whenever the probe's fetch is
\* rejected, times out or is answered with a non-2xx status.
C16_ProbeNeverThrows ==
    last.op = "checkConnection"
        => /\ last.result.kind = "return"
           /\ last.result.val \in {"true", "false"}
           /\ (~ResponseOk(last.status)
                  => (last.result.val = "false" /\ ~connectionStatus.connected))

\* The probe's fetch was rejected while the backend had been marked
\* connected, and the probe reported false.
C16_Witness ==
    /\ last.op = "checkConnection"
    /\ last.status = 0
    /\ last.result = Return("false")
    /\ connectionStatus = Disconnected("Backend server not reachable")
    /\ loginCompleted

\* C20: the mount of AuthProvider sets the user to the persisted token and
\* username when both are persisted, and leaves no user otherwise.
C20_Rehydrated ==
    [][(loading /\ ~loading')
          => user' = (IF localStorage.authToken # Null /\ localStorage.username # Null
                      THEN [username |-> localStorage.username,
                            authToken |-> localStorage.authToken]
                      ELSE NoUser)]_vars

\* The provider has just mounted over a persisted session.
C20_Witness ==
    /\ ~loading
    /\ ~loginCompleted
    /\ tasks = EmptyBag
    /\ localStorage = [authToken |-> "t2", username |-> "bob"]
    /\ user = [username |-> "bob", authToken |-> "t2"]

\* C18: a submission whose username has fewer than 3 characters is stopped
\* before any request: it puts no call in flight, and every register or
\* login request put in flight carries the submitted username of at least 3
\* characters.
C18_ShortUsernameNeverSent ==
    [][/\ \A task \in BagToSet(tasks') :
              (Issued(task) /\ task.op \in {"register", "login"})
                  => /\ ~submitted'.blocked
                     /\ submitted'.username = formUsername
                     /\ Len(submitted'.username) >= 3
       /\ (submitted' # submitted /\ Len(submitted'.username) < 3)
              => (submitted'.blocked /\ tasks' = tasks)]_vars

\* A two-character username was submitted and nothing was sent.
C18_Witness ==
    /\ submitted.blocked
    /\ Len(submitted.username) = 2
    /\ submitted.op = "login"
    /\ tasks = EmptyBag
    /\ ~formLoading

\* C14: while the monitor's signal (isConnected of Index) is disconnected,
\* no step of the upload zone, the document list or the chat issues an
\* uploadPdf, removePdf or chat request.
C14_GatedWhileDisconnected ==
    [][\A task \in BagToSet(tasks') :
           (Issued(task) /\ task.op \in {"uploadPdf", "removePdf", "chat"})
               => isConnected]_vars

\* The number of probes waiting for their response.
ProbesInFlight(bag) ==
    BagCardinality([task \in {t \in BagToSet(bag) : t.op = "checkConnection"}
                       |-> CopiesIn(task, bag)])

\* C17: the mount of the view starts exactly one probe and the 30 second
\* timer; every other step that starts a probe starts exactly one, in a
\* mounted view whose timer runs; the unmount clears the timer, and no step
\* starts a probe once the view is gone.
C17_ProbeSchedule ==
    [][/\ (mounted = "no" /\ mounted' = "yes")
              => /\ ProbesInFlight(tasks') = ProbesInFlight(tasks) + 1
                 /\ interval' = 30000
       /\ ProbesInFlight(tasks') > ProbesInFlight(tasks)
              => /\ ProbesInFlight(tasks') = ProbesInFlight(tasks) + 1
                 /\ mounted' = "yes"
                 /\ interval' = 30000
       /\ mounted' = "gone" => interval' = 0]_vars

\* The view is gone and its timer cleared while the probe of the mount and
\* the probe of a tick are still in flight.
C17_Witness ==
    /\ mounted = "gone"
    /\ interval = 0
    /\ ProbesInFlight(tasks) = 2

\* The file names that end in .pdf whatever the case of their letters.
PdfNames == { <<"a", ".", "p", "d", "f">>, <<"A", ".", "P", "D", "F">> }

\* C19: an upload request is only issued for a file whose name ends in .pdf
\* (case-insensitively) while the signal is connected; an upload of any
\* other file, or of any file while the signal is disconnected, ends
\* without a request.
C19_UploadGate ==
    [][/\ \A task \in BagToSet(tasks') :
              (Issued(task) /\ task.op = "uploadPdf")
                  => (isConnected /\ uploadAttempt'.file \in PdfNames)
       /\ (uploadAttempt' # NoAttempt
              /\ (~isConnected \/ uploadAttempt'.file \notin PdfNames))
              => (tasks' = tasks /\ last' = NoEvent)]_vars

\* A PDF was handed to the upload zone of a view that had been connected
\* and is now disconnected, and no upload is in flight.
C19_Witness ==
    /\ mounted = "yes"
    /\ ~isConnected
    /\ documents # <<>>
    /\ uploadAttempt.file = <<"a", ".", "p", "d", "f">>
    /\ uploadAttempt.via = "pick"
    /\ \A task \in BagToSet(tasks) : task.op # "uploadPdf"

\* The operations that read the session without owning it.
DataOps == {"listPdfs", "uploadPdf", "removePdf", "chat", "checkConnection"}

\* C21: a step changes the persisted token/username or the in-memory user
\* only when it completes a login, register or logout, when it handles a 401
\* response, or when the provider rehydrates at mount; a step of listPdfs,
\* uploadPdf, removePdf, chat or the probe without a 401 leaves both as
\* they were.
C21_SessionFrame ==
    [][/\ (localStorage' # localStorage \/ user' # user)
              => \/ loading
                 \/ last'.op \in {"login", "register", "logout"}
                 \/ (last'.op \in DataOps /\ last'.status = 401)
       /\ (last'.op \in DataOps /\ last'.status # 401)
              => (localStorage' = localStorage /\ user' = user)]_vars

\* An authenticated chat was answered with 500 and the session is intact.
C21_Witness ==
    /\ last.op = "chat"
    /\ last.status = 500
    /\ last.wasAuthenticated
    /\ user # NoUser
    /\ localStorage.authToken = user.authToken
    /\ localStorage.username = user.username

\* The number of chat requests waiting for their response or their body.
ChatsInFlight == BagCardinality([task \in {t \in BagToSet(tasks) : t.op = "chat"}
                                    |-> CopiesIn(task, tasks)])

\* C22: at most one chat request of the chat view is in flight at any time,
\* and while it is the view's submit control is disabled.
C22_OneChatInFlight ==
    /\ ChatsInFlight <= 1
    /\ (ChatsInFlight = 1 /\ mounted = "yes") => chatLoading

\* A chat is outstanding in a mounted view that lists a document, and the
\* gateway would take another call.
C22_Witness ==
    /\ ChatsInFlight = 1
    /\ BagCardinality(tasks) = 1
    /\ mounted = "yes"
    /\ documents # <<>>
    /\ chatLoading

\* C23: no operation retries: a step issues at most one request, the step
\* in which a call ends issues none, and when the request of a call failed
\* (rejected, or answered with a non-2xx status) that one step hands the
\* failure to the caller: a thrown error, or false from the probe.  The
\* best-effort logout is left out.
C23_NoRetrySurfacedOnce ==
    [][/\ BagCardinality(tasks') <= BagCardinality(tasks) + 1
       /\ last'.op # "none" => \A task \in BagToSet(tasks') : ~Issued(task)
       /\ (/\ last'.op \in Ops \ {"logout"}
           /\ last'.sent
           /\ (last'.status = 0 \/ ~ResponseOk(last'.status)))
              => \/ last'.result.kind = "throw"
                 \/ (last'.op = "checkConnection" /\ last'.result.val = "false")]_vars

Advanced(task) ==
    /\ task.phase = "json"
    /\ CopiesIn(task, tasks') > CopiesIn(task, tasks)

C25_OneEntryPerReply ==
    [][(last'.op = "chat" /\ last'.result.kind = "return" /\ mounted = "yes")
           => /\ chatStep'.received \in ChatReplies
              /\ Len(chatStep'.appended) = 1
              /\ chatStep'.appended[1].type = "assistant"
              /\ chatStep'.appended[1].content = <<chatStep'.received.response>>
              /\ chatStep'.appended[1].sources = chatStep'.received.sources]_vars

\* An authenticated, connected chat returned a reply with two sources and
\* the log got its one entry.
C25_Witness ==
    /\ last.op = "chat"
    /\ last.result.kind = "return"
    /\ last.wasAuthenticated
    /\ user # NoUser
    /\ isConnected
    /\ connectionStatus.connected
    /\ chatStep.received.sources = <<"b.pdf", "a.pdf">>
    /\ Len(chatStep.appended) = 1

\* C26: the path of removePdf's request carries the file name as one
\* percent-encoded segment after /remove_pdf/: splitting the path at its
\* slashes and decoding gives back exactly the file name, for names with a
\* space, a percent sign, a slash or a non-ASCII character as well.
C26_FilenameRoundTrip ==
    removal.path # <<>>
        => /\ SubSeq(removal.path, 1, 3) = <<"/", "remove_pdf", "/">>
           /\ \A i \in 4..Len(removal.path) : removal.path[i] \notin {"/", " ", "U+00E9"}
           /\ RouteParameters(removal.path) = <<removal.filename>>

\* The request for a name made of a space, a slash and a percent sign is out.
C26_Witness ==
    /\ removal.filename = <<" ", "/", "%">>
    /\ removal.path = <<"/", "remove_pdf", "/", "%", "2", "0", "%", "2", "F", "%", "2", "5">>
    /\ \E task \in BagToSet(tasks) : task.op = "removePdf"

\* The call that ended in this step.
Ended(task) == CopiesIn(task, tasks') < CopiesIn(task, tasks)

\* C27: once a login or register has established the session, a 401 that
\* answers a request sent with another Authorization header than the
\* session's (an earlier token, or none) leaves the session in place.
C27_StaleUnauthorizedKeepsSession ==
    [][\A task \in BagToSet(tasks) :
           (/\ Ended(task)
            /\ last'.status = 401
            /\ task.op \in BearerOps
            /\ loginCompleted
            /\ localStorage.authToken # Null
            /\ user # NoUser
            /\ task.authorization # <<"Bearer", localStorage.authToken>>)
               => (localStorage' = localStorage /\ user' = user)]_vars

\* C28: once the AuthProvider has mounted, between any two steps the user
\* it holds agrees with localStorage: a user is set exactly when a token is
\* stored, and then its token and username are the stored ones, whatever
\* the interleaving of login, register, logout and 401 evictions.
C28_SessionAgreesWithStorage ==
    ~loading =>
        /\ (user # NoUser) <=> (localStorage.authToken # Null)
        /\ user # NoUser =>
               /\ user.authToken = localStorage.authToken
               /\ user.username = localStorage.username

\* A login replaced the session while a request sent under the earlier
\* token is still in flight.
C28_Witness ==
    /\ ~loading
    /\ last.op \in {"login", "register"}
    /\ last.result.kind = "return"
    /\ user # NoUser
    /\ user.authToken = localStorage.authToken
    /\ \E task \in BagToSet(tasks) :
           /\ Len(task.authorization) = 2
           /\ task.authorization[2] # localStorage.authToken

\* C29: a probe that got an HTTP response returns true and leaves
\* connectionStatus.connected true exactly when the status is 2xx; with any
\* other status, a 401 and a 500 included, it returns false and leaves
\* connected false, and after a 401 neither key is stored and no user is set.
C29_ProbeReportsResponseOk ==
    (last.op = "checkConnection" /\ last.status # 0) =>
        /\ last.result.kind = "return"
        /\ (last.result.val = "true") <=> ResponseOk(last.status)
        /\ (last.result.val = "false") <=> ~ResponseOk(last.status)
        /\ connectionStatus.connected <=> ResponseOk(last.status)
        /\ last.status = 401 =>
               /\ localStorage = EmptyStorage
               /\ user = NoUser

\* A probe sent while a user was set is answered 500 by a reachable backend.
C29_Witness ==
    /\ last.op = "checkConnection"
    /\ last.status = 500
    /\ last.wasAuthenticated
    /\ last.result.val = "false"
    /\ ~connectionStatus.connected
    /\ user # NoUser

\* C30: while no token is stored, no step issues an uploadPdf or listPdfs
\* request; a call of uploadPdf then throws the not-authenticated error and
\* a call of listPdfs returns the empty list, and that step changes neither
\* the requests in flight, nor localStorage, nor the user, nor
\* connectionStatus.
C30_NoTokenNoRequest ==
    [][localStorage.authToken = Null =>
           /\ \A task \in BagToSet(tasks') :
                  Issued(task) => task.op \notin {"uploadPdf", "listPdfs"}
           /\ (last'.op \in {"uploadPdf", "listPdfs"} /\ ~last'.sent) =>
                  /\ last'.op = "uploadPdf" =>
                         last'.result = Throw(<<"Not authenticated. Please log in first.">>)
                  /\ last'.op = "listPdfs" => last'.result = Return("[]")
                  /\ tasks' = tasks
                  /\ localStorage' = localStorage
                  /\ user' = user
                  /\ connectionStatus' = connectionStatus]_vars

\* After a session has come and gone, an upload is refused without a
\* request while another call is still in flight.
C30_Witness ==
    /\ loginCompleted
    /\ localStorage.authToken = Null
    /\ last.op = "uploadPdf"
    /\ ~last.sent
    /\ last.result.kind = "throw"
    /\ tasks # EmptyBag

\* C31: a document-list query that fails (rejected fetch, 401 or another
\* non-2xx response) leaves the documents of Index as they were.
C31_FailedListKeepsDocuments ==
    [][(/\ mounted = "yes"
        /\ last'.op = "listPdfs"
        /\ last'.sent
        /\ ~ResponseOk(last'.status))
           => documents' = documents]_vars

\* C32: while Index is mounted and no call is in flight, its isConnected
\* equals connectionStatus.connected of the gateway.
C32_SignalsAgreeWhenIdle ==
    (mounted = "yes" /\ tasks = EmptyBag) =>
        (isConnected <=> connectionStatus.connected)

\* The removals of a document that are in flight.
RemovalsInFlight(doc) ==
    BagCardinality([task \in {t \in BagToSet(tasks) : t.op = "removePdf" /\ t.file = doc}
                        |-> tasks[task]])

\* C33: no document has two remove requests in flight, and while a removal
\* of a document is in flight the remove button of that document is
\* disabled, whatever happens to removals of other documents.
C33_OneRemovalPerDocument ==
    \A doc \in {"notes.pdf", "slides.pdf"} :
        /\ RemovalsInFlight(doc) <= 1
        /\ (mounted = "yes" /\ RemovalsInFlight(doc) = 1) => deletingDoc = doc

\* C34: the step in which a chat request completes, with a reply or with
\* any failure, appends exactly one entry to the messages of the mounted
\* ChatInterface, an assistant entry for a reply and an error entry for a
\* failure, and clears isLoading; a user entry is appended only while
\* isLoading is clear and sets it, and no other step appends anything or
\* touches isLoading, so user entries and reply entries alternate and the
\* submit control is enabled again once the request has completed.
C34_OneReplyEntryPerRequest ==
    [][mounted = "yes" =>
           /\ last'.op = "chat" =>
                  /\ chatLoading
                  /\ ~chatLoading'
                  /\ Len(chatStep'.appended) = 1
                  /\ chatStep'.appended[1].type =
                         (IF last'.result.kind = "return" THEN "assistant" ELSE "error")
           /\ (last'.op # "chat" /\ chatStep'.appended # <<>>) =>
                  /\ chatStep'.appended = <<UserMessage>>
                  /\ ~chatLoading
                  /\ chatLoading'
           /\ (last'.op # "chat" /\ chatStep'.appended = <<>>) =>
                  chatLoading' = chatLoading]_vars

\* A chat request has failed: its error entry is in the log and the submit
\* control is enabled again.
C34_Witness ==
    /\ mounted = "yes"
    /\ last.op = "chat"
    /\ last.result.kind = "throw"
    /\ Len(chatStep.appended) = 1
    /\ chatStep.appended[1].type = "error"
    /\ ~chatLoading

\* C35: a file dropped on the upload zone is treated as a file chosen in
\* the picker is, by the connectivity of Index at the time of the drop: on a
\* connected view a dropped PDF starts an upload.
C35_DropGatedLikePick ==
    uploadAttempt.via = "drop" =>
        uploadAttempt.outcome =
            (IF ~isConnected THEN "inert" ELSE uploadFile(~isConnected, uploadAttempt.file))

\* C36: while the auth-derived indicator is mounted, the isConnected of
\* Index equals isAuthenticated, from the mount on, also when the user was
\* already set at the mount.
C36_FlagEqualsAuthentication ==
    prevAuth # Null => (isConnected <=> user # NoUser)

====
